---------------------------- MODULE Spec2Model ----------------------------
(***************************************************************************)
(* Model of the line-split engine of git-fission:                          *)
(*   src/src/line-split/extract.ts   extractChanges, validateExtraction    *)
(*   src/src/line-split/assemble.ts  buildFileContent, buildPatches        *)
(*                                                                         *)
(* A JavaScript string is a sequence of one-character strings, so that     *)
(* split('\n'), join('\n'), startsWith and slice(1) are computed and not   *)
(* assumed.  A JavaScript array is a sequence; array index i is sequence   *)
(* position i + 1.  A Map is either a function (lookup only) or a sequence *)
(* of entries in insertion order (when the code iterates it).              *)
(***************************************************************************)
EXTENDS Integers, Sequences, FiniteSets, TLC

(***************************************************************************)
(* Bounds of the checked inputs.                                           *)
(***************************************************************************)
\* Largest number of hunk lines of one diff (over all its hunks).
MaxLines == 3

(***************************************************************************)
(* Strings.                                                                *)
(***************************************************************************)
NL == "\n"

RECURSIVE Split(_)
\* s.split('\n'): the pieces between newlines; '' gives [''].
Split(s) ==
  IF \E i \in 1..Len(s) : s[i] = NL
  THEN LET i == CHOOSE k \in 1..Len(s) : s[k] = NL /\ \A j \in 1..(k-1) : s[j] # NL
       IN  <<SubSeq(s, 1, i - 1)>> \o Split(SubSeq(s, i + 1, Len(s)))
  ELSE <<s>>

RECURSIVE Join(_)
\* lines.join('\n'); [] gives ''.
Join(lines) ==
  IF Len(lines) = 0 THEN <<>>
  ELSE IF Len(lines) = 1 THEN lines[1]
  ELSE lines[1] \o <<NL>> \o Join(Tail(lines))

\* line.startsWith(c) for a one-character c.
StartsWith(line, c) == Len(line) > 0 /\ line[1] = c

\* line.slice(1)
Slice1(line) == IF Len(line) = 0 THEN <<>> ELSE Tail(line)

\* line.startsWith('+') || line.startsWith('-')
IsChange(line) == StartsWith(line, "+") \/ StartsWith(line, "-")

(***************************************************************************)
(* Hunk headers.  A header is a record [kind, orig, new]:                  *)
(*   "full"     "@@ -o,.. +n,.. @@"  matched by both regular expressions   *)
(*   "partial"  "@@ -o ..."          matched by assemble.ts's only         *)
(*   "none"     matched by neither                                         *)
(***************************************************************************)
\* hunk.header.match(/@@ -(\d+)(?:,\d+)? \+(\d+)(?:,\d+)? @@/) in extractChanges
ExtractHeaderMatch(header) == header.kind = "full"

\* hunk.header.match(/@@ -(\d+)/) in buildFileContent
AssembleHeaderMatch(header) == header.kind \in {"full", "partial"}

(***************************************************************************)
(* extract.ts                                                              *)
(***************************************************************************)
NoRange == [none |-> TRUE]

RECURSIVE MapFromLines(_, _, _)
\* The inner loop of buildClassificationMap: map.set(`${hunkId}:${lineIndex}`,
\* commitId) for each line, a later entry replacing an earlier one.
MapFromLines(map, hunkId, lines) ==
  IF Len(lines) = 0 THEN map
  ELSE LET key == <<hunkId, lines[1].lineIndex>>
           rest == [k \in DOMAIN map \ {key} |-> map[k]]
       IN  MapFromLines(rest @@ (key :> lines[1].commitId), hunkId, Tail(lines))

RECURSIVE MapFromResults(_, _)
MapFromResults(map, classifications) ==
  IF Len(classifications) = 0 THEN map
  ELSE MapFromResults(
         MapFromLines(map, classifications[1].hunkId, classifications[1].lines),
         Tail(classifications))

\* buildClassificationMap: (hunkId, lineIndex) -> commitId
buildClassificationMap(classifications) == MapFromResults(<<>>, classifications)

\* Position of filePath in a Map<filePath, ranges[]> kept as a sequence of
\* entries in insertion order; 0 when absent (fileRanges.has(filePath)).
EntryIndex(entries, filePath) ==
  IF \E i \in 1..Len(entries) : entries[i].filePath = filePath
  THEN CHOOSE i \in 1..Len(entries) : entries[i].filePath = filePath
  ELSE 0

\* A file seen for the first time is put in front of the commit's files.
PushRange_Prepend(entries, filePath, range) ==
  LET i == EntryIndex(entries, filePath)
  IN  IF i = 0
      THEN <<[filePath |-> filePath, ranges |-> <<range>>]>> \o entries
      ELSE [entries EXCEPT ![i].ranges = Append(@, range)]

\* fileRanges.set(filePath, []) when absent, then
\* fileRanges.get(filePath).push(range)
PushRange(entries, filePath, range) ==
  LET i == EntryIndex(entries, filePath)
  IN  IF i = 0
      THEN Append(entries, [filePath |-> filePath, ranges |-> <<range>>])
      ELSE [entries EXCEPT ![i].ranges = Append(@, range)]

\* flushRange.  st is the state of the scan: cfr (commitFileRanges), cur
\* (currentRange), o (originalLineNum), n (newLineNum), threw (a TypeError
\* left extractChanges).  commitFileRanges.get(id)! is undefined for an id
\* that is not in the plan, and .has on it throws.
flushRange(st, filePath, hunk) ==
  IF st.cur = NoRange THEN st
  ELSE IF st.cur.commitId \notin DOMAIN st.cfr
       THEN [st EXCEPT !.threw = TRUE]
       ELSE [st EXCEPT
               !.cfr[st.cur.commitId] =
                  PushRange(@, filePath,
                    [hunkId               |-> hunk.id,
                     startLineIdx         |-> st.cur.startIdx,
                     endLineIdx           |-> st.cur.startIdx + Len(st.cur.lines) - 1,
                     type                 |-> st.cur.type,
                     lines                |-> st.cur.lines,
                     startOriginalLineNum |-> st.cur.startOriginalLineNum,
                     startNewLineNum      |-> st.cur.startNewLineNum]),
               !.cur = NoRange]

\* The fallback taken to be the last group of the plan.
ResolveCommit_LastGroup(classMap, commits, key) ==
  IF key \in DOMAIN classMap /\ classMap[key] # ""
  THEN [threw |-> FALSE, id |-> classMap[key]]
  ELSE IF Len(commits) = 0 THEN [threw |-> TRUE, id |-> ""]
  ELSE [threw |-> FALSE, id |-> commits[Len(commits)].id]

\* classMap.get(key) || commits[0].id : [threw, id], threw being the
\* TypeError of commits[0].id on an empty plan.
ResolveCommit(classMap, commits, key) ==
  IF key \in DOMAIN classMap /\ classMap[key] # ""
  THEN [threw |-> FALSE, id |-> classMap[key]]
  ELSE IF Len(commits) = 0 THEN [threw |-> TRUE, id |-> ""]
  ELSE [threw |-> FALSE, id |-> commits[1].id]

\* The extend test comparing the line index with the start of the range
\* instead of its end.
CanExtend_FromStart(cur, commitId, type, lineIdx) ==
  /\ cur # NoRange
  /\ cur.commitId = commitId
  /\ cur.type = type
  /\ cur.startIdx + 1 = lineIdx

\* The extend test without the comparison of the types.
CanExtend_AnyType(cur, commitId, type, lineIdx) ==
  /\ cur # NoRange
  /\ cur.commitId = commitId
  /\ cur.startIdx + Len(cur.lines) = lineIdx

\* The extend test of extractChanges (extract.ts:137-140).
CanExtend(cur, commitId, type, lineIdx) ==
  /\ cur # NoRange
  /\ cur.commitId = commitId
  /\ cur.type = type
  /\ cur.startIdx + Len(cur.lines) = lineIdx

\* One iteration of the line loop of extractChanges (extract.ts:124-168).
ScanLine(st, classMap, commits, filePath, hunk, hunkLines, lineIdx) ==
  LET line == hunkLines[lineIdx + 1]
  IN  IF line = <<>> /\ lineIdx = Len(hunkLines) - 1 THEN st
      ELSE IF IsChange(line)
      THEN LET type     == line[1]
               content  == Slice1(line)
               resolved == ResolveCommit(classMap, commits, <<hunk.id, lineIdx>>)
               commitId == resolved.id
               placed   ==
                 IF CanExtend(st.cur, commitId, type, lineIdx)
                 THEN [st EXCEPT !.cur.lines = Append(@, content)]
                 ELSE [flushRange(st, filePath, hunk) EXCEPT
                         !.cur = [commitId             |-> commitId,
                                  type                 |-> type,
                                  startIdx             |-> lineIdx,
                                  lines                |-> <<content>>,
                                  startOriginalLineNum |-> IF type = "-" THEN st.o ELSE -1,
                                  startNewLineNum      |-> IF type = "+" THEN st.n ELSE -1]]
           IN  IF resolved.threw THEN [st EXCEPT !.threw = TRUE]
               ELSE IF type = "+" THEN [placed EXCEPT !.n = @ + 1]
               ELSE [placed EXCEPT !.o = @ + 1]
      ELSE [flushRange(st, filePath, hunk) EXCEPT !.o = @ + 1, !.n = @ + 1]

RECURSIVE ScanLines(_, _, _, _, _, _, _)
ScanLines(st, classMap, commits, filePath, hunk, hunkLines, lineIdx) ==
  IF st.threw \/ lineIdx >= Len(hunkLines) THEN st
  ELSE ScanLines(ScanLine(st, classMap, commits, filePath, hunk, hunkLines, lineIdx),
                 classMap, commits, filePath, hunk, hunkLines, lineIdx + 1)

\* The hunk loop without the flush of the final range (extract.ts:171).
ScanHunk_NoFinalFlush(st, classMap, commits, filePath, hunk) ==
  LET hunkLines == Split(hunk.content)
      start == [st EXCEPT
                  !.cur = NoRange,
                  !.o = IF ExtractHeaderMatch(hunk.header) THEN hunk.header.orig
                        ELSE hunk.startLine,
                  !.n = IF ExtractHeaderMatch(hunk.header) THEN hunk.header.new
                        ELSE hunk.startLine]
  IN  ScanLines(start, classMap, commits, filePath, hunk, hunkLines, 0)

\* The body of the hunk loop (extract.ts:80-172).
ScanHunk(st, classMap, commits, filePath, hunk) ==
  LET hunkLines == Split(hunk.content)
      start == [st EXCEPT
                  !.cur = NoRange,
                  !.o = IF ExtractHeaderMatch(hunk.header) THEN hunk.header.orig
                        ELSE hunk.startLine,
                  !.n = IF ExtractHeaderMatch(hunk.header) THEN hunk.header.new
                        ELSE hunk.startLine]
      scanned == ScanLines(start, classMap, commits, filePath, hunk, hunkLines, 0)
  IN  IF scanned.threw THEN scanned ELSE flushRange(scanned, filePath, hunk)

RECURSIVE ScanHunks(_, _, _, _, _)
ScanHunks(st, classMap, commits, filePath, hunks) ==
  IF st.threw \/ Len(hunks) = 0 THEN st
  ELSE ScanHunks(ScanHunk(st, classMap, commits, filePath, hunks[1]),
                 classMap, commits, filePath, Tail(hunks))

RECURSIVE ScanFiles(_, _, _, _)
ScanFiles(st, classMap, commits, fileList) ==
  IF st.threw \/ Len(fileList) = 0 THEN st
  ELSE ScanFiles(ScanHunks(st, classMap, commits, fileList[1].filePath, fileList[1].hunks),
                 classMap, commits, Tail(fileList))

\* for (const [filePath, ranges] of fileRangesMap) if (ranges.length > 0) ...
NonEmptyEntries(entries) == SelectSeq(entries, LAMBDA e : Len(e.ranges) > 0)

\* extractChanges: [threw |-> TRUE] when a TypeError leaves the function,
\* else [threw |-> FALSE, value |-> CommitChanges[]].
extractChanges(fileList, commits, classifications) ==
  LET classMap == buildClassificationMap(classifications)
      ids      == {commits[i].id : i \in 1..Len(commits)}
      st0      == [cfr |-> [id \in ids |-> <<>>], cur |-> NoRange,
                   o |-> 0, n |-> 0, threw |-> FALSE]
      st       == ScanFiles(st0, classMap, commits, fileList)
  IN  IF st.threw THEN [threw |-> TRUE, value |-> <<>>]
      ELSE [threw |-> FALSE,
            value |-> [i \in 1..Len(commits) |->
                         [commitId    |-> commits[i].id,
                          message     |-> commits[i].message,
                          description |-> commits[i].description,
                          fileChanges |-> NonEmptyEntries(st.cfr[commits[i].id])]]]

(***************************************************************************)
(* validateExtraction (extract.ts:198-243)                                 *)
(***************************************************************************)
RECURSIVE SumSeq(_)
SumSeq(ns) == IF Len(ns) = 0 THEN 0 ELSE ns[1] + SumSeq(Tail(ns))

RECURSIVE Flatten(_)
\* Concatenation of a sequence of sequences.
Flatten(ss) == IF Len(ss) = 0 THEN <<>> ELSE ss[1] \o Flatten(Tail(ss))

\* The count of the changed lines of a hunk that forgets the removals.
ChangedInHunk_AdditionsOnly(hunk) ==
  LET lines == Split(hunk.content)
  IN  Cardinality({i \in 1..Len(lines) : StartsWith(lines[i], "+")})

\* Number of lines of one hunk that start with + or - (extract.ts:208-213).
ChangedInHunk(hunk) ==
  LET lines == Split(hunk.content)
  IN  Cardinality({i \in 1..Len(lines) : IsChange(lines[i])})

\* totalChangedLines (extract.ts:205-215)
TotalChangedLines(fileList) ==
  SumSeq(Flatten([f \in 1..Len(fileList) |->
           [h \in 1..Len(fileList[f].hunks) |-> ChangedInHunk(fileList[f].hunks[h])]]))

\* The ranges in the order the three nested loops visit them
\* (extract.ts:221-223), each with the commit it is visited under.
VisitedRanges(cc) ==
  Flatten([c \in 1..Len(cc) |->
    Flatten([f \in 1..Len(cc[c].fileChanges) |->
      [r \in 1..Len(cc[c].fileChanges[f].ranges) |->
         [commitId |-> cc[c].commitId, range |-> cc[c].fileChanges[f].ranges[r]]]])])

\* `${range.hunkId}:${range.startLineIdx}-${range.endLineIdx}`
RangeKey(range) == <<range.hunkId, range.startLineIdx, range.endLineIdx>>

RECURSIVE DuplicateErrors(_, _)
\* The errors pushed by the loop over the ranges, seen being seenRanges.
DuplicateErrors(visited, seen) ==
  IF Len(visited) = 0 THEN <<>>
  ELSE LET key == RangeKey(visited[1].range)
           err == IF key \in seen
                  THEN <<[kind |-> "Duplicate range", key |-> key,
                          commit |-> visited[1].commitId]>>
                  ELSE <<>>
       IN  err \o DuplicateErrors(Tail(visited), seen \cup {key})

\* extractedChanges (extract.ts:230)
ExtractedChanges(cc) ==
  LET visited == VisitedRanges(cc)
  IN  SumSeq([i \in 1..Len(visited) |-> Len(visited[i].range.lines)])

validateExtraction(fileList, cc) ==
  LET total     == TotalChangedLines(fileList)
      extracted == ExtractedChanges(cc)
      errors    == DuplicateErrors(VisitedRanges(cc), {})
                   \o (IF extracted # total
                       THEN <<[kind |-> "Line count mismatch",
                               extracted |-> extracted, expected |-> total]>>
                       ELSE <<>>)
  IN  [valid |-> Len(errors) = 0, errors |-> errors]

(***************************************************************************)
(* assemble.ts: buildFileContent                                           *)
(***************************************************************************)
\* selectedByHunk.get(hunkId) || new Set(): the line indexes of the hunk that
\* the ranges cover (assemble.ts:40-48, 67).
Selected(selectedRanges, hunkId) ==
  UNION {selectedRanges[i].startLineIdx .. selectedRanges[i].endLineIdx :
           i \in {j \in 1..Len(selectedRanges) : selectedRanges[j].hunkId = hunkId}}

\* originalContent === '' ? [] : originalContent.split('\n')
OriginalLines(originalContent) ==
  IF originalContent = <<>> THEN <<>> ELSE Split(originalContent)

RECURSIVE CopyUntil(_, _, _)
\* while (originalIdx < limit && originalIdx < originalLines.length) push, ++
\* on the replay state rs = [result, originalIdx].
CopyUntil(rs, originalLines, limit) ==
  IF rs.originalIdx < limit /\ rs.originalIdx < Len(originalLines)
  THEN CopyUntil([result      |-> Append(rs.result, originalLines[rs.originalIdx + 1]),
                  originalIdx |-> rs.originalIdx + 1], originalLines, limit)
  ELSE rs

\* if (originalIdx < originalLines.length) result.push(...); originalIdx++
KeepOriginal(rs, originalLines) ==
  [result      |-> IF rs.originalIdx < Len(originalLines)
                   THEN Append(rs.result, originalLines[rs.originalIdx + 1])
                   ELSE rs.result,
   originalIdx |-> rs.originalIdx + 1]

\* One iteration of the hunk-line loop of buildFileContent (assemble.ts:69-97).
ReplayLine(rs, originalLines, hunkLines, selected, lineIdx) ==
  LET line == hunkLines[lineIdx + 1]
  IN  IF line = <<>> /\ lineIdx = Len(hunkLines) - 1 THEN rs
      ELSE IF StartsWith(line, "+")
      THEN IF lineIdx \in selected
           THEN [rs EXCEPT !.result = Append(@, Slice1(line))]
           ELSE rs
      ELSE IF StartsWith(line, "-")
      THEN IF lineIdx \in selected
           THEN [rs EXCEPT !.originalIdx = @ + 1]
           ELSE KeepOriginal(rs, originalLines)
      ELSE IF StartsWith(line, " ")
      THEN KeepOriginal(rs, originalLines)
      ELSE rs

RECURSIVE ReplayLines(_, _, _, _, _)
ReplayLines(rs, originalLines, hunkLines, selected, lineIdx) ==
  IF lineIdx >= Len(hunkLines) THEN rs
  ELSE ReplayLines(ReplayLine(rs, originalLines, hunkLines, selected, lineIdx),
                   originalLines, hunkLines, selected, lineIdx + 1)

\* headerMatch ? parseInt(headerMatch[1]) - 1 : 0
HunkStartLine(hunk) ==
  IF AssembleHeaderMatch(hunk.header) THEN hunk.header.orig - 1 ELSE 0

\* The hunk loop body when the position in the original is reset to the
\* hunk's declared start.
ReplayHunk_FromHeader(rs, originalLines, hunk, selectedRanges) ==
  ReplayLines([CopyUntil(rs, originalLines, HunkStartLine(hunk))
                 EXCEPT !.originalIdx = HunkStartLine(hunk)],
              originalLines, Split(hunk.content),
              Selected(selectedRanges, hunk.id), 0)

\* The body of the hunk loop of buildFileContent (assemble.ts:54-98).
ReplayHunk(rs, originalLines, hunk, selectedRanges) ==
  ReplayLines(CopyUntil(rs, originalLines, HunkStartLine(hunk)),
              originalLines, Split(hunk.content),
              Selected(selectedRanges, hunk.id), 0)

RECURSIVE ReplayHunks(_, _, _, _)
ReplayHunks(rs, originalLines, hunks, selectedRanges) ==
  IF Len(hunks) = 0 THEN rs
  ELSE ReplayHunks(ReplayHunk(rs, originalLines, hunks[1], selectedRanges),
                   originalLines, Tail(hunks), selectedRanges)

buildFileContent(originalContent, hunks, selectedRanges) ==
  IF Len(hunks) = 0 THEN originalContent
  ELSE LET originalLines == OriginalLines(originalContent)
           rs == ReplayHunks([result |-> <<>>, originalIdx |-> 0],
                             originalLines, hunks, selectedRanges)
       IN  Join(CopyUntil(rs, originalLines, Len(originalLines)).result)

(***************************************************************************)
(* git.ts is not among the sources; its two functions that buildPatches    *)
(* calls are modelled from their description.                              *)
(***************************************************************************)
\* generateUnifiedDiff(filePath, before, after, isNewFile): the empty string
\* when before = after, else one fragment.  A fragment is a string of one
\* opaque character that records the call.
generateUnifiedDiff(filePath, before, after, isNewFile) ==
  IF before = after THEN <<>>
  ELSE <<[filePath |-> filePath, before |-> before, after |-> after,
          isNewFile |-> isNewFile]>>

\* getFileAtRef(`${commitHash}~1`, filePath): the content of the file in the
\* parent commit, or null.  repo is the parent commit, a function from the
\* paths it holds to their content; the result is [isNull, value].
getFileAtRef(repo, filePath) ==
  IF filePath \in DOMAIN repo
  THEN [isNull |-> FALSE, value |-> repo[filePath]]
  ELSE [isNull |-> TRUE, value |-> <<>>]

(***************************************************************************)
(* assemble.ts: initializeContext, buildPatches                            *)
(***************************************************************************)
\* fileHeader.includes(marker); a file header is the sequence of its lines,
\* each named by the marker it carries.
Includes(fileHeader, marker) == \E i \in 1..Len(fileHeader) : fileHeader[i] = marker

\* isNewFile of initializeContext (assemble.ts:121-122)
HeaderSaysNew(fileHeader) ==
  Includes(fileHeader, "new file mode") \/ Includes(fileHeader, "--- /dev/null")

\* content || '' for the result of getFileAtRef
OrEmpty(got) == IF got.isNull THEN <<>> ELSE got.value

RECURSIVE SetFileStates(_, _, _)
\* The loop of initializeContext: a later file of the same path replaces the
\* state an earlier one set.
SetFileStates(states, fileList, repo) ==
  IF Len(fileList) = 0 THEN states
  ELSE LET f == fileList[1]
           content == IF HeaderSaysNew(f.fileHeader) THEN <<>>
                      ELSE OrEmpty(getFileAtRef(repo, f.filePath))
           rest == [k \in DOMAIN states \ {f.filePath} |-> states[k]]
       IN  SetFileStates(rest @@ (f.filePath :> content), Tail(fileList), repo)

initializeContext(fileList, repo) ==
  [fileStates     |-> SetFileStates(<<>>, fileList, repo),
   newFiles       |-> {fileList[i].filePath :
                         i \in {j \in 1..Len(fileList) : HeaderSaysNew(fileList[j].fileHeader)}},
   createdInPatch |-> {}]

\* files.find that takes the first file when none has the path.
FindFile_OrFirst(fileList, filePath) ==
  IF \E i \in 1..Len(fileList) : fileList[i].filePath = filePath
  THEN CHOOSE i \in 1..Len(fileList) : fileList[i].filePath = filePath
  ELSE 1

\* files.find(f => f.filePath === filePath): the position of the first such
\* file, 0 when find returns undefined.
FindFile(fileList, filePath) ==
  IF \E i \in 1..Len(fileList) : fileList[i].filePath = filePath
  THEN CHOOSE i \in 1..Len(fileList) :
         /\ fileList[i].filePath = filePath
         /\ \A j \in 1..(i-1) : fileList[j].filePath # filePath
  ELSE 0

\* isNewFile of buildPatches (assemble.ts:163)
IsNewFileFlag(context, filePath) ==
  filePath \in context.newFiles /\ filePath \notin context.createdInPatch

\* currentContent taken to be the original content whatever came before.
CurrentContent_AlwaysOriginal(originalContent, hunks, prevRanges) == originalContent

\* currentContent (assemble.ts:169-171)
CurrentContent(originalContent, hunks, prevRanges) ==
  IF Len(prevRanges) > 0
  THEN buildFileContent(originalContent, hunks, prevRanges)
  ELSE originalContent

\* newCumulativeRanges that forgets the ranges of the earlier commits.
NewCumulativeRanges_OwnOnly(prevRanges, ranges) == ranges

\* newCumulativeRanges (assemble.ts:174)
NewCumulativeRanges(prevRanges, ranges) == prevRanges \o ranges

\* The context when createdInPatch is never added to.
MarkCreated_Never(context, filePath, isNewFile, diff) == context

\* The context when a first introduction is marked whatever the diff is.
MarkCreated_IgnoreDiff(context, filePath, isNewFile, diff) ==
  IF isNewFile
  THEN [context EXCEPT !.createdInPatch = @ \cup {filePath}]
  ELSE context

\* The context after a diff has been generated (assemble.ts:183-189).
MarkCreated(context, filePath, isNewFile, diff) ==
  IF diff # <<>> /\ isNewFile
  THEN [context EXCEPT !.createdInPatch = @ \cup {filePath}]
  ELSE context

\* map.get(key) || dflt
GetOr(map, key, dflt) == IF key \in DOMAIN map THEN map[key] ELSE dflt

\* map.set(key, value)
MapSet(map, key, value) == [k \in DOMAIN map \ {key} |-> map[k]] @@ (key :> value)

\* The body of the fileChange loop of buildPatches (assemble.ts:158-189) on
\* the loop state bs = [ctx, cumulativeRangesByFile, patchParts, calls] for
\* the commit at position c; calls records each generateUnifiedDiff call.
FileChangeStep(bs, fileList, c, fileChange) ==
  LET filePath == fileChange.filePath
      found    == FindFile(fileList, filePath)
  IN  IF found = 0 THEN bs
      ELSE
        LET file            == fileList[found]
            originalContent == GetOr(bs.ctx.fileStates, filePath, <<>>)
            isNewFile       == IsNewFileFlag(bs.ctx, filePath)
            prevRanges      == GetOr(bs.cumulativeRangesByFile, filePath, <<>>)
            currentContent  == CurrentContent(originalContent, file.hunks, prevRanges)
            newCumulativeRanges == NewCumulativeRanges(prevRanges, fileChange.ranges)
            targetContent   ==
              buildFileContent(originalContent, file.hunks, newCumulativeRanges)
            diff == generateUnifiedDiff(filePath, currentContent, targetContent,
                                        isNewFile)
        IN  [bs EXCEPT
               !.ctx = MarkCreated(bs.ctx, filePath, isNewFile, diff),
               !.cumulativeRangesByFile =
                 MapSet(bs.cumulativeRangesByFile, filePath, newCumulativeRanges),
               !.patchParts = IF diff # <<>> THEN Append(bs.patchParts, diff)
                              ELSE bs.patchParts,
               !.calls = Append(bs.calls,
                 [commit |-> c, filePath |-> filePath, before |-> currentContent,
                  after |-> targetContent, isNewFile |-> isNewFile, diff |-> diff])]

RECURSIVE FileChangesLoop(_, _, _, _, _)
\* for (const fileChange of commit.fileChanges) from position i on.
FileChangesLoop(bs, fileList, c, fileChanges, i) ==
  IF i > Len(fileChanges) THEN bs
  ELSE FileChangesLoop(FileChangeStep(bs, fileList, c, fileChanges[i]),
                       fileList, c, fileChanges, i + 1)

RECURSIVE CommitsLoop(_, _, _, _)
\* for (const commit of commitChanges) from position c on; bs carries the
\* results as well.
CommitsLoop(bs, fileList, cc, c) ==
  IF c > Len(cc) THEN bs
  ELSE LET after == FileChangesLoop([bs EXCEPT !.patchParts = <<>>], fileList, c,
                                    cc[c].fileChanges, 1)
       IN  CommitsLoop([after EXCEPT !.results = Append(@,
                          [commitId    |-> cc[c].commitId,
                           message     |-> cc[c].message,
                           description |-> cc[c].description,
                           patch       |-> Flatten(after.patchParts)])],
                       fileList, cc, c + 1)

\* buildPatches(files, commitChanges, commitHash): the results, with the
\* context, the cumulative ranges and the diff calls it ends with.
buildPatches(fileList, cc, repository) ==
  CommitsLoop([ctx |-> initializeContext(fileList, repository),
               cumulativeRangesByFile |-> <<>>,
               patchParts |-> <<>>,
               calls |-> <<>>,
               results |-> <<>>],
              fileList, cc, 1)

(***************************************************************************)
(* State.                                                                  *)
(***************************************************************************)
VARIABLES
  files,            \* ParsedFileDiff[]: [filePath, fileHeader, hunks]
  commits,          \* CommitPlan[]: [id, message, description]
  classifications,  \* HunkClassificationResult[]: [hunkId, lines]
  repo,             \* the parent commit read by getFileAtRef
  pc,               \* position of the pipeline
  commitChanges,    \* CommitChanges[] returned by extractChanges
  validation,       \* result of validateExtraction
  ctx,              \* PatchBuildContext of buildPatches
  cumulativeRangesByFile,
  ci,               \* position of the commit loop of buildPatches (1-based)
  fi,               \* position of the fileChange loop (1-based)
  patchParts,
  results,          \* AssembledPatch[]
  calls             \* the calls of generateUnifiedDiff made so far

vars == <<files, commits, classifications, repo, pc, commitChanges, validation,
          ctx, cumulativeRangesByFile, ci, fi, patchParts, results, calls>>

inputs == <<files, commits, classifications, repo>>

build == <<ctx, cumulativeRangesByFile, ci, fi, patchParts, results, calls>>

NoValidation == [valid |-> FALSE, errors |-> <<"not run">>]

NoContext == [fileStates |-> <<>>, newFiles |-> {}, createdInPatch |-> {}]

\* The state before any function of the pipeline has run.
Fresh ==
  /\ pc = "extract"
  /\ commitChanges = <<>>
  /\ validation = NoValidation
  /\ ctx = NoContext
  /\ cumulativeRangesByFile = <<>>
  /\ ci = 0
  /\ fi = 0
  /\ patchParts = <<>>
  /\ results = <<>>
  /\ calls = <<>>

(***************************************************************************)
(* Actions.                                                                *)
(***************************************************************************)
\* extractChanges(files, commits, classifications); a TypeError ends the run.
Extract ==
  /\ pc = "extract"
  /\ LET r == extractChanges(files, commits, classifications)
     IN  IF r.threw
         THEN pc' = "threw" /\ commitChanges' = <<>>
         ELSE pc' = "validate" /\ commitChanges' = r.value
  /\ UNCHANGED <<inputs, validation, build>>

\* validateExtraction(files, commitChanges)
Validate ==
  /\ pc = "validate"
  /\ validation' = validateExtraction(files, commitChanges)
  /\ pc' = "build"
  /\ UNCHANGED <<inputs, commitChanges, build>>

\* buildPatches up to its commit loop (assemble.ts:148-152)
BuildStart ==
  /\ pc = "build"
  /\ ctx' = initializeContext(files, repo)
  /\ cumulativeRangesByFile' = <<>>
  /\ results' = <<>>
  /\ patchParts' = <<>>
  /\ ci' = 1
  /\ fi' = 1
  /\ pc' = "commit"
  /\ UNCHANGED <<inputs, commitChanges, validation, calls>>

\* One iteration of the fileChange loop of buildPatches (assemble.ts:157-190).
BuildFile ==
  /\ pc = "commit"
  /\ ci <= Len(commitChanges)
  /\ fi <= Len(commitChanges[ci].fileChanges)
  /\ LET bs == FileChangeStep([ctx |-> ctx,
                               cumulativeRangesByFile |-> cumulativeRangesByFile,
                               patchParts |-> patchParts,
                               calls |-> calls],
                              files, ci, commitChanges[ci].fileChanges[fi])
     IN  /\ ctx' = bs.ctx
         /\ cumulativeRangesByFile' = bs.cumulativeRangesByFile
         /\ patchParts' = bs.patchParts
         /\ calls' = bs.calls
  /\ fi' = fi + 1
  /\ UNCHANGED <<inputs, pc, commitChanges, validation, ci, results>>

\* The end of one iteration of the commit loop (assemble.ts:192-197).
BuildCommit ==
  /\ pc = "commit"
  /\ ci <= Len(commitChanges)
  /\ fi > Len(commitChanges[ci].fileChanges)
  /\ results' = Append(results,
       [commitId    |-> commitChanges[ci].commitId,
        message     |-> commitChanges[ci].message,
        description |-> commitChanges[ci].description,
        patch       |-> Flatten(patchParts)])
  /\ patchParts' = <<>>
  /\ ci' = ci + 1
  /\ fi' = 1
  /\ UNCHANGED <<inputs, pc, commitChanges, validation, ctx,
                 cumulativeRangesByFile, calls>>

\* return results (assemble.ts:200)
BuildReturn ==
  /\ pc = "commit"
  /\ ci > Len(commitChanges)
  /\ pc' = "done"
  /\ UNCHANGED <<inputs, commitChanges, validation, build>>

Next == Extract \/ Validate \/ BuildStart \/ BuildFile \/ BuildCommit \/ BuildReturn

(***************************************************************************)
(* Inputs.  A diff is drawn as a list of at most MaxLines line shapes cut  *)
(* into one or two hunks, in one file or in two:                           *)
(*   "+c" an added line c        "+"  an added empty line                  *)
(*   "-"  a removed line         " "  a context line                       *)
(*   "\\" a line that starts with none of + - space (the marker            *)
(*        "\ No newline at end of file")                                   *)
(* Removed and context lines carry the line of the original content they   *)
(* stand on, z when the hunk runs past the end of the content.  Hunk ids   *)
(* count the hunks of the diff from 0.  The content of every hunk but the  *)
(* last of the diff ends with a newline.                                   *)
(***************************************************************************)
Shapes == {"+c", "+", "-", " ", "\\"}

ShapeLists == UNION {[1..n -> Shapes] : n \in 1..MaxLines}

IsChangedShape(sh) == sh \in {"+c", "+", "-"}

ConsumesOriginal(sh) == sh \in {"-", " "}

\* Content of the parent commit's files.
OrigF == <<"a", NL, "b", NL, "d", NL>>
OrigG == <<"e", NL, "f">>

FileHeaderPlain == <<"diff --git", "index", "--- a", "+++ b">>
FileHeaderNew   == <<"diff --git", "new file mode", "index", "--- /dev/null", "+++ b">>

\* Kinds of the two files: "old" is in the parent commit, "new" is created
\* by the diff, "gone" has a plain header but is absent from the parent.
KindPairs == {<<"old", "new">>, <<"new", "old">>, <<"gone", "old">>}

RepoOf(kinds) ==
  [p \in {q \in {"F", "G"} : kinds[IF q = "F" THEN 1 ELSE 2] = "old"} |->
     IF p = "F" THEN OrigF ELSE OrigG]

OrigOf(path, kind) ==
  IF kind = "old" THEN (IF path = "F" THEN OrigF ELSE OrigG) ELSE <<>>

\* Number of positions before i (exclusive) of the shape list whose shape is in T.
CountBefore(shapes, i, T) == Cardinality({j \in 1..(i-1) : shapes[j] \in T})

\* The text of hunk line i of a hunk that starts at original line origStart.
LineText(shapes, i, origStart, orig) ==
  LET sh    == shapes[i]
      lines == OriginalLines(orig)
      pos   == origStart + CountBefore(shapes, i, {"-", " "})
      text  == IF pos >= 1 /\ pos <= Len(lines) THEN lines[pos] ELSE <<"z">>
  IN  CASE sh = "+c" -> <<"+", "c">>
        [] sh = "+"  -> <<"+">>
        [] sh = "-"  -> <<"-">> \o text
        [] sh = " "  -> <<" ">> \o text
        [] OTHER     -> <<"\\">>

MkHunk(shapes, id, origStart, newStart, hdrKind, orig, trailingNL) ==
  [id        |-> id,
   header    |-> [kind |-> hdrKind, orig |-> origStart, new |-> newStart],
   startLine |-> origStart,
   content   |-> Join([i \in 1..Len(shapes) |-> LineText(shapes, i, origStart, orig)])
                 \o (IF trailingNL THEN <<NL>> ELSE <<>>)]

MkFile(path, kind, hunks) ==
  [filePath   |-> path,
   fileHeader |-> IF kind = "new" THEN FileHeaderNew ELSE FileHeaderPlain,
   hunks      |-> hunks]

\* First original / new line of the first hunk of a file.
FirstOrig(kind) == IF kind = "new" THEN 0 ELSE 1

\* The files of a diff: shapes cut after position cut (0: one hunk); the
\* second hunk is in the same file, one original line below the first, or
\* (twoFiles) in file G.
MkFiles(shapes, cut, twoFiles, kinds, hdrKind) ==
  LET n   == Len(shapes)
      s1  == IF cut = 0 THEN shapes ELSE SubSeq(shapes, 1, cut)
      s2  == IF cut = 0 THEN <<>> ELSE SubSeq(shapes, cut + 1, n)
      o1  == FirstOrig(kinds[1])
      h1  == MkHunk(s1, 0, o1, 1, hdrKind, OrigOf("F", kinds[1]), cut # 0)
      o2  == IF twoFiles THEN FirstOrig(kinds[2])
             ELSE 1 + CountBefore(s1, Len(s1) + 1, {"-", " "}) + 1
      n2  == IF twoFiles THEN 1
             ELSE 1 + CountBefore(s1, Len(s1) + 1, {"+c", "+", " "}) + 1
      h2  == MkHunk(s2, 1, o2, n2, hdrKind,
                    IF twoFiles THEN OrigOf("G", kinds[2]) ELSE OrigOf("F", kinds[1]),
                    FALSE)
  IN  IF cut = 0 THEN <<MkFile("F", kinds[1], <<h1>>)>>
      ELSE IF twoFiles THEN <<MkFile("F", kinds[1], <<h1>>), MkFile("G", kinds[2], <<h2>>)>>
      ELSE <<MkFile("F", kinds[1], <<h1, h2>>)>>

\* The classification result of one hunk: one entry per classified line,
\* class being a function from the changed positions of the shape list to a
\* group id or "none"; the hunk holds positions from+1 .. to.
MkHunkClassification(hunkId, class, from, to) ==
  [hunkId |-> hunkId,
   lines  |-> LET all == [i \in 1..(to - from) |->
                            [lineIndex |-> i - 1,
                             commitId  |-> IF (from + i) \in DOMAIN class
                                           THEN class[from + i] ELSE "none"]]
              IN  SelectSeq(all, LAMBDA e : e.commitId # "none")]

MkClassifications(shapes, cut, class) ==
  IF cut = 0 THEN <<MkHunkClassification(0, class, 0, Len(shapes))>>
  ELSE <<MkHunkClassification(0, class, 0, cut),
         MkHunkClassification(1, class, cut, Len(shapes))>>

ChangedPositions(shapes) == {i \in 1..Len(shapes) : IsChangedShape(shapes[i])}

MkCommit(id) == [id |-> id, message |-> <<"message", id>>, description |-> <<"about", id>>]

MkPlan(ids) == [i \in 1..Len(ids) |-> MkCommit(ids[i])]

\* The inputs of one run, drawn from the given plans, classes, file kinds
\* and header kinds.
DrawInputs(Plans, Classes, Kinds, HdrKinds) ==
  \E shapes \in ShapeLists :
    \E cut \in 0..(Len(shapes) - 1), twoFiles \in BOOLEAN,
       kinds \in Kinds, hdrKind \in HdrKinds, plan \in Plans :
      \E class \in [ChangedPositions(shapes) -> Classes] :
        /\ (cut = 0 => ~twoFiles)
        /\ files = MkFiles(shapes, cut, twoFiles, kinds, hdrKind)
        /\ commits = MkPlan(plan)
        /\ classifications = MkClassifications(shapes, cut, class)
        /\ repo = RepoOf(kinds)

(***************************************************************************)
(* Spec: the whole pipeline on a two-group plan, every changed line        *)
(* classified into a group of the plan.                                    *)
(***************************************************************************)
Init ==
  /\ DrawInputs({<<"g1", "g2">>}, {"g1", "g2"}, KindPairs, {"full"})
  /\ Fresh

Spec == Init /\ [][Next]_vars

(***************************************************************************)
(* SpecR: buildPatches on one file whose two hunks declare any starts, so   *)
(* that they may overlap or lie past the end of the file, for a group with  *)
(* no ranges followed by the group that holds every changed line.          *)
(***************************************************************************)
\* Declared original starts of the two hunks.
HunkStarts == {<<1, 1>>, <<1, 4>>, <<4, 1>>, <<2, 3>>}

\* The file (path, kind) that the hunks belong to.
ReplayTargets == {<<"F", "old">>, <<"G", "old">>, <<"F", "new">>}

\* One file with hunks of the shapes before and after cut, at the declared
\* starts.
MkFilesAt(shapes, cut, starts, target, hdrKind) ==
  LET n    == Len(shapes)
      s1   == IF cut = 0 THEN shapes ELSE SubSeq(shapes, 1, cut)
      s2   == IF cut = 0 THEN <<>> ELSE SubSeq(shapes, cut + 1, n)
      orig == OrigOf(target[1], target[2])
      h1   == MkHunk(s1, 0, starts[1], starts[1], hdrKind, orig, cut # 0)
      h2   == MkHunk(s2, 1, starts[2], starts[2], hdrKind, orig, FALSE)
  IN  <<MkFile(target[1], target[2], IF cut = 0 THEN <<h1>> ELSE <<h1, h2>>)>>

\* A group that names the file and holds no range of it.
EmptyGroup(path) ==
  [commitId    |-> "g0",
   message     |-> <<"message", "g0">>,
   description |-> <<"about", "g0">>,
   fileChanges |-> <<[filePath |-> path, ranges |-> <<>>]>>]

InitR ==
  /\ \E shapes \in ShapeLists :
       \E cut \in 0..(Len(shapes) - 1), starts \in HunkStarts,
          target \in ReplayTargets, hdrKind \in {"full", "none"} :
         /\ files = MkFilesAt(shapes, cut, starts, target, hdrKind)
         /\ commits = MkPlan(<<"g1">>)
         /\ classifications =
              MkClassifications(shapes, cut,
                                [i \in ChangedPositions(shapes) |-> "g1"])
         /\ repo = IF target[2] = "old"
                   THEN (target[1] :> OrigOf(target[1], "old")) ELSE <<>>
         /\ commitChanges =
              <<EmptyGroup(target[1])>> \o
                extractChanges(files, commits, classifications).value
  /\ pc = "build"
  /\ validation = NoValidation
  /\ ctx = NoContext
  /\ cumulativeRangesByFile = <<>>
  /\ ci = 0
  /\ fi = 0
  /\ patchParts = <<>>
  /\ results = <<>>
  /\ calls = <<>>

NextBuild == BuildStart \/ BuildFile \/ BuildCommit \/ BuildReturn

SpecR == InitR /\ [][NextBuild]_vars

(***************************************************************************)
(* SpecM: buildPatches on the extracted changes of a two-group plan, with  *)
(* one more file change put into the first group, for a file that is not   *)
(* in the diff.                                                            *)
(***************************************************************************)
\* The path of the file that no FileDiff has.
AbsentPath == "H"

\* A file change for the absent file; its range names a hunk id and a line
\* index that the diff has too.
AbsentFileChange ==
  [filePath |-> AbsentPath,
   ranges   |-> <<[hunkId |-> 0, startLineIdx |-> 0, endLineIdx |-> 0,
                   type |-> "+", lines |-> <<<<"h">>>>,
                   startOriginalLineNum |-> -1, startNewLineNum |-> 1]>>]

\* cc with fileChange put into group c after its first pos file changes.
InsertFileChange(cc, c, pos, fileChange) ==
  [cc EXCEPT ![c].fileChanges =
     SubSeq(@, 1, pos) \o <<fileChange>> \o SubSeq(@, pos + 1, Len(@))]

InitM ==
  /\ DrawInputs({<<"g1", "g2">>}, {"g1", "g2"},
                {<<"old", "new">>, <<"new", "old">>}, {"full"})
  /\ LET extracted == extractChanges(files, commits, classifications).value
     IN  \E pos \in 0..Len(extracted[1].fileChanges) :
           commitChanges = InsertFileChange(extracted, 1, pos, AbsentFileChange)
  /\ pc = "build"
  /\ validation = NoValidation
  /\ ctx = NoContext
  /\ cumulativeRangesByFile = <<>>
  /\ ci = 0
  /\ fi = 0
  /\ patchParts = <<>>
  /\ results = <<>>
  /\ calls = <<>>

SpecM == InitM /\ [][NextBuild]_vars

(***************************************************************************)
(* SpecX: the partitioner alone, on plans of zero, one and two groups and   *)
(* classifications that may leave a line out or name a group outside the   *)
(* plan.                                                                   *)
(***************************************************************************)
InitX ==
  /\ DrawInputs({<<>>, <<"g1">>, <<"g2", "g1">>},
                {"g1", "g2", "none"}, {<<"old", "new">>}, {"full", "none"})
  /\ Fresh

\* validateExtraction without the reconstruction that follows it.
ValidateOnly ==
  /\ pc = "validate"
  /\ validation' = validateExtraction(files, commitChanges)
  /\ pc' = "done"
  /\ UNCHANGED <<inputs, commitChanges, build>>

NextX == Extract \/ ValidateOnly

SpecX == InitX /\ [][NextX]_vars

(***************************************************************************)
(* Vocabulary of the properties, read off the inputs and the outputs       *)
(* without the operators that model the code.                              *)
(***************************************************************************)
\* The hunks of the diff, each with the path of its file.
DiffHunks ==
  UNION {{[filePath |-> files[f].filePath, hunk |-> files[f].hunks[h]] :
            h \in 1..Len(files[f].hunks)} : f \in 1..Len(files)}

\* The addition/removal lines of the diff: (hunk id, line index).
DiffChangeLines ==
  UNION {{<<d.hunk.id, i - 1>> :
            i \in {k \in 1..Len(Split(d.hunk.content)) :
                     IsChange(Split(d.hunk.content)[k])}} : d \in DiffHunks}

\* The places of the ranges of an output: (commit, fileChange, range) positions.
RangeSlots(cc) ==
  UNION {UNION {{<<c, f, r>> : r \in 1..Len(cc[c].fileChanges[f].ranges)} :
                  f \in 1..Len(cc[c].fileChanges)} : c \in 1..Len(cc)}

RangeAt(cc, slot) == cc[slot[1]].fileChanges[slot[2]].ranges[slot[3]]

\* The ranges of an output that contain line i of hunk h.
Covering(cc, h, i) ==
  {slot \in RangeSlots(cc) :
     /\ RangeAt(cc, slot).hunkId = h
     /\ RangeAt(cc, slot).startLineIdx <= i
     /\ i <= RangeAt(cc, slot).endLineIdx}

\* extractChanges has returned.
Extracted == pc \notin {"extract", "threw"}

\* The ids of the plan.
PlanIds == {commits[i].id : i \in 1..Len(commits)}

\* The entries of the classification for line i of hunk h.
ClassEntries(h, i) ==
  UNION {{classifications[k].lines[j].commitId :
            j \in {m \in 1..Len(classifications[k].lines) :
                     /\ classifications[k].hunkId = h
                     /\ classifications[k].lines[m].lineIndex = i}} :
         k \in 1..Len(classifications)}

\* The group a changed line belongs to: the one its entry names, the first
\* of the plan when it has no entry.
GroupOfLine(h, i) ==
  IF ClassEntries(h, i) # {}
  THEN CHOOSE g \in ClassEntries(h, i) : TRUE
  ELSE commits[1].id

\* The classification assigns every changed line to one group of the plan.
FullyClassified ==
  \A key \in DiffChangeLines :
    /\ Cardinality(ClassEntries(key[1], key[2])) = 1
    /\ ClassEntries(key[1], key[2]) \subseteq PlanIds

\* Number of groups of an output that hold at least one range.
GroupsWithRanges(cc) == Cardinality({slot[1] : slot \in RangeSlots(cc)})

(***************************************************************************)
(* Properties of the partitioner (SpecX).                                  *)
(***************************************************************************)
\* C2: when extractChanges returns, every addition/removal line (hunk id,
\* line index) of the diff lies in exactly one LineRange over all groups and
\* files of the output: none is missing, none is in two ranges.
C2_ExactlyOneRange ==
  Extracted =>
    \A key \in DiffChangeLines :
      Cardinality(Covering(commitChanges, key[1], key[2])) = 1

\* Reached: an output over two hunks where both groups hold ranges, one line
\* was left unclassified, and three lines changed.
C2_Witness ==
  /\ Extracted
  /\ Cardinality(DiffChangeLines) = 3
  /\ Cardinality(DiffHunks) = 2
  /\ GroupsWithRanges(commitChanges) = 2
  /\ \E key \in DiffChangeLines : ClassEntries(key[1], key[2]) = {}
  /\ \A key \in DiffChangeLines :
       Cardinality(Covering(commitChanges, key[1], key[2])) = 1

\* C3: when the classification assigns every addition/removal line to
\* exactly one group of the plan, validateExtraction applied to the output of
\* extractChanges returns valid = true and no error.
C3_ValidWhenClassified ==
  (pc = "done" /\ FullyClassified) =>
    (validation.valid /\ validation.errors = <<>>)

\* Reached: a fully classified diff of three changed lines split over both
\* groups has been validated.
C3_Witness ==
  /\ pc = "done"
  /\ FullyClassified
  /\ Cardinality(DiffChangeLines) = 3
  /\ GroupsWithRanges(commitChanges) = 2
  /\ validation.valid

\* C9: in the output of extractChanges no group holds two ranges of the same
\* hunk and type whose spans are adjacent (end of one + 1 = start of other).
C9_RangesMaximal ==
  Extracted =>
    \A s1, s2 \in RangeSlots(commitChanges) :
      (/\ s1[1] = s2[1]
       /\ RangeAt(commitChanges, s1).hunkId = RangeAt(commitChanges, s2).hunkId
       /\ RangeAt(commitChanges, s1).type = RangeAt(commitChanges, s2).type)
      => RangeAt(commitChanges, s1).endLineIdx + 1
           # RangeAt(commitChanges, s2).startLineIdx

\* Reached: one group holds two ranges of the same hunk and type that are one
\* line apart, the nearest two ranges the property allows.
C9_Witness ==
  /\ Extracted
  /\ \E s1, s2 \in RangeSlots(commitChanges) :
       /\ s1 # s2
       /\ s1[1] = s2[1]
       /\ RangeAt(commitChanges, s1).hunkId = RangeAt(commitChanges, s2).hunkId
       /\ RangeAt(commitChanges, s1).type = RangeAt(commitChanges, s2).type
       /\ RangeAt(commitChanges, s1).endLineIdx + 2
            = RangeAt(commitChanges, s2).startLineIdx

\* C10: every LineRange of the output lies in one hunk of its file and covers
\* consecutive indexes start..end whose lines all have the range's type and
\* belong to the range's group; none is a context line; lines holds those
\* hunk lines without their prefix, so end - start + 1 = lines.length.
C10_RangeWellFormed ==
  Extracted =>
    \A slot \in RangeSlots(commitChanges) :
      LET R    == RangeAt(commitChanges, slot)
          path == commitChanges[slot[1]].fileChanges[slot[2]].filePath
      IN  \E d \in DiffHunks :
            /\ d.filePath = path
            /\ d.hunk.id = R.hunkId
            /\ LET L == Split(d.hunk.content)
               IN  /\ 0 <= R.startLineIdx
                   /\ R.startLineIdx <= R.endLineIdx
                   /\ R.endLineIdx < Len(L)
                   /\ R.type \in {"+", "-"}
                   /\ \A i \in R.startLineIdx .. R.endLineIdx :
                        /\ Len(L[i + 1]) > 0
                        /\ L[i + 1][1] = R.type
                        /\ GroupOfLine(R.hunkId, i) = commitChanges[slot[1]].commitId
                   /\ R.endLineIdx - R.startLineIdx + 1 = Len(R.lines)
                   /\ \A k \in 1..Len(R.lines) :
                        R.lines[k] = Tail(L[R.startLineIdx + k])

\* Reached: a hunk with a context line and, beside it, a range of two lines.
C10_Witness ==
  /\ Extracted
  /\ \E d \in DiffHunks :
       /\ \E i \in 1..Len(Split(d.hunk.content)) :
            StartsWith(Split(d.hunk.content)[i], " ")
       /\ \E s1 \in RangeSlots(commitChanges) :
            /\ RangeAt(commitChanges, s1).hunkId = d.hunk.id
            /\ Len(RangeAt(commitChanges, s1).lines) = 2

\* C8: extractChanges returns without throwing for every FileDiff list, plan
\* and classification, also when an entry names a group outside the plan and
\* when the plan is empty.
C8_NeverThrows == pc # "threw"

(***************************************************************************)
(* SpecV: validateExtraction on any CommitChanges[], not only on an output *)
(* of extractChanges: one hunk in file F, two groups, each holding at most *)
(* one range of changed lines of one type.                                 *)
(***************************************************************************)
\* The range over lines from..to (0-based) of the hunk.
MkRange(hunk, from, to) ==
  LET L == Split(hunk.content)
  IN  [hunkId               |-> hunk.id,
       startLineIdx         |-> from,
       endLineIdx           |-> to,
       type                 |-> L[from + 1][1],
       lines                |-> [k \in 1..(to - from + 1) |-> Tail(L[from + k])],
       startOriginalLineNum |-> -1,
       startNewLineNum      |-> -1]

\* The spans of a hunk whose lines are all changed lines of one type.
Spans(hunk) ==
  LET L == Split(hunk.content)
  IN  {<<from, to>> \in (0..(Len(L) - 1)) \X (0..(Len(L) - 1)) :
         /\ from <= to
         /\ \A i \in from..to : IsChange(L[i + 1]) /\ L[i + 1][1] = L[from + 1][1]}

\* The fileChanges of a group that holds the given set of spans (none or one).
MkFileChanges(hunk, spans) ==
  IF spans = {} THEN <<>>
  ELSE LET sp == CHOOSE x \in spans : TRUE
       IN  <<[filePath |-> "F", ranges |-> <<MkRange(hunk, sp[1], sp[2])>>]>>

InitV ==
  /\ \E shapes \in ShapeLists :
       /\ files = MkFiles(shapes, 0, FALSE, <<"old", "new">>, "full")
       /\ \E sp1, sp2 \in {{}} \cup {{x} : x \in Spans(files[1].hunks[1])} :
            commitChanges =
              [i \in 1..2 |->
                 [commitId    |-> MkCommit(<<"g1", "g2">>[i]).id,
                  message     |-> MkCommit(<<"g1", "g2">>[i]).message,
                  description |-> MkCommit(<<"g1", "g2">>[i]).description,
                  fileChanges |-> MkFileChanges(files[1].hunks[1],
                                                IF i = 1 THEN sp1 ELSE sp2)]]
  /\ commits = MkPlan(<<"g1", "g2">>)
  /\ classifications = <<>>
  /\ repo = RepoOf(<<"old", "new">>)
  /\ pc = "validate"
  /\ validation = NoValidation
  /\ ctx = NoContext
  /\ cumulativeRangesByFile = <<>>
  /\ ci = 0
  /\ fi = 0
  /\ patchParts = <<>>
  /\ results = <<>>
  /\ calls = <<>>

SpecV == InitV /\ [][ValidateOnly]_vars

\* C4: for any CommitChanges[], validateExtraction returns valid = true only
\* if every addition/removal line of the diff is covered by exactly one range.
C4_ValidOnlyIfPartition ==
  (pc = "done" /\ validation.valid) =>
    \A key \in DiffChangeLines :
      Cardinality(Covering(commitChanges, key[1], key[2])) = 1

(***************************************************************************)
(* Vocabulary of the reconstructor's properties.                           *)
(***************************************************************************)
\* The paths of the diff.
DiffPaths == {files[f].filePath : f \in 1..Len(files)}

\* The file of the diff with the given path.
FileOf(path) == files[CHOOSE f \in 1..Len(files) : files[f].filePath = path]

\* The pre-change state of a file: its content in the parent commit, empty
\* when the parent commit does not hold it.
PreChange(path) == IF path \in DOMAIN repo THEN repo[path] ELSE <<>>

\* The ranges a group holds for a file.
RangesOfGroup(c, path) ==
  Flatten([f \in 1..Len(commitChanges[c].fileChanges) |->
             IF commitChanges[c].fileChanges[f].filePath = path
             THEN commitChanges[c].fileChanges[f].ranges ELSE <<>>])

\* The union of the ranges that groups 1..k hold for a file.
RangesUpTo(k, path) == Flatten([c \in 1..k |-> RangesOfGroup(c, path)])

\* One range per hunk that covers every line of the hunk.
EveryLine(hunks) ==
  [h \in 1..Len(hunks) |->
     [hunkId |-> hunks[h].id, startLineIdx |-> 0,
      endLineIdx |-> Len(Split(hunks[h].content)) - 1]]

\* The content of a file after the whole diff: the replay with every
\* addition/removal line selected.
FullyChanged(path) ==
  buildFileContent(PreChange(path), FileOf(path).hunks, EveryLine(FileOf(path).hunks))

\* The fragments of the patches returned, in group order.
Fragments == Flatten([r \in 1..Len(results) |-> results[r].patch])

RECURSIVE ApplyFragments(_, _, _)
\* The state of a file after applying, in order, the before -> after
\* transition of each fragment for it; ok is FALSE once a fragment's before
\* is not the state it is applied to.
ApplyFragments(state, frags, path) ==
  IF Len(frags) = 0 THEN state
  ELSE IF frags[1].filePath # path THEN ApplyFragments(state, Tail(frags), path)
  ELSE IF state.ok /\ state.content = frags[1].before
       THEN ApplyFragments([ok |-> TRUE, content |-> frags[1].after], Tail(frags), path)
       ELSE [ok |-> FALSE, content |-> state.content]

\* The hunks of a file are well-formed against its pre-change content: every
\* header is complete, every removed or context line stands on the original
\* line it names, and a later hunk starts below the lines of an earlier one.
WellFormed(path) ==
  LET hunks == FileOf(path).hunks
      orig  == OriginalLines(PreChange(path))
      Consuming(h) == {i \in 1..Len(Split(hunks[h].content)) :
                         \/ StartsWith(Split(hunks[h].content)[i], "-")
                         \/ StartsWith(Split(hunks[h].content)[i], " ")}
  IN  \A h \in 1..Len(hunks) :
        LET L == Split(hunks[h].content)
        IN  /\ hunks[h].header.kind = "full"
            /\ \A i \in Consuming(h) :
                 LET pos == hunks[h].header.orig
                            + Cardinality({j \in Consuming(h) : j < i})
                 IN  /\ pos >= 1
                     /\ pos <= Len(orig)
                     /\ Tail(L[i]) = orig[pos]
            /\ \A g \in 1..(h - 1) :
                 hunks[g].header.orig + Cardinality(Consuming(g)) <= hunks[h].header.orig

\* The calls of generateUnifiedDiff for a file, as positions of the log.
CallsFor(path) == {k \in 1..Len(calls) : calls[k].filePath = path}

Max(S) == CHOOSE x \in S : \A y \in S : y <= x

(***************************************************************************)
(* Properties of the reconstructor (Spec).                                 *)
(***************************************************************************)
\* C1: round trip.  Applying the patches returned by buildPatches in group
\* order, each as its before -> after transition, starting from the
\* pre-change content of every file, succeeds at every step and ends in the
\* content of the fully changed file; no changed line is lost or duplicated.
C1_RoundTrip ==
  pc = "done" =>
    \A path \in DiffPaths :
      ApplyFragments([ok |-> TRUE, content |-> PreChange(path)], Fragments, path)
        = [ok |-> TRUE, content |-> FullyChanged(path)]

\* Reached: an existing file with well-formed hunks that hold a removal and
\* an addition, changed by the patches of both groups.
C1_Witness ==
  /\ pc = "done"
  /\ \E path \in DiffPaths :
       /\ WellFormed(path)
       /\ PreChange(path) # <<>>
       /\ \E i, j \in 1..Len(Fragments) :
            /\ i < j
            /\ Fragments[i].filePath = path
            /\ Fragments[j].filePath = path
            /\ Fragments[j].after = FullyChanged(path)
       /\ \E s1, s2 \in RangeSlots(commitChanges) :
            /\ RangeAt(commitChanges, s1).type = "-"
            /\ RangeAt(commitChanges, s2).type = "+"
            /\ commitChanges[s1[1]].fileChanges[s1[2]].filePath = path
            /\ commitChanges[s2[1]].fileChanges[s2[2]].filePath = path

\* C5: for each group and each file it touches, the before state handed to
\* the diff generator is the replay with the ranges of all strictly earlier
\* groups for that file and the after state the replay with those plus the
\* group's own; so before is the after of the latest earlier call for the
\* file, or the pre-change content when there is none.  Every file change of
\* a finished group has its call.
C5_BeforeAfter ==
  /\ \A k \in 1..Len(calls) :
       LET path  == calls[k].filePath
           hunks == FileOf(path).hunks
           prior == {j \in CallsFor(path) : j < k}
       IN  /\ calls[k].before =
                buildFileContent(PreChange(path), hunks,
                                 RangesUpTo(calls[k].commit - 1, path))
           /\ calls[k].after =
                buildFileContent(PreChange(path), hunks,
                                 RangesUpTo(calls[k].commit, path))
           /\ calls[k].before = IF prior = {} THEN PreChange(path)
                                ELSE calls[Max(prior)].after
  /\ pc \in {"commit", "done"} =>
       \A c \in 1..Len(commitChanges) : \A f \in 1..Len(commitChanges[c].fileChanges) :
         (c < ci \/ (c = ci /\ f < fi)) =>
           \E k \in 1..Len(calls) :
             /\ calls[k].commit = c
             /\ calls[k].filePath = commitChanges[c].fileChanges[f].filePath

\* Reached: the second group's call for a file the first group changed, with
\* a before state that is neither the pre-change content nor its own after.
C5_Witness ==
  \E k \in 1..Len(calls) :
    /\ calls[k].commit = 2
    /\ \E j \in 1..(k - 1) : calls[j].filePath = calls[k].filePath
    /\ calls[k].before # PreChange(calls[k].filePath)
    /\ calls[k].before # calls[k].after
    /\ PreChange(calls[k].filePath) # <<>>

\* The calls that introduce a file: isNewFile = true and a nonempty fragment.
Introductions(path) ==
  {k \in CallsFor(path) : calls[k].isNewFile /\ calls[k].diff # <<>>}

\* C6: a file flagged as newly created gets a nonempty fragment generated
\* with isNewFile = true at most once, namely in the earliest call whose after
\* content is nonempty (exactly once when there is such a call), and every
\* later call for the file has isNewFile = false.
C6_SingleIntroduction ==
  \A path \in ctx.newFiles :
    LET nonEmpty == {k \in CallsFor(path) : calls[k].after # <<>>}
    IN  /\ \A k \in CallsFor(path) :
             (k \in Introductions(path)) <=>
               (k \in nonEmpty /\ \A j \in nonEmpty : k <= j)
        /\ Cardinality(Introductions(path)) = IF nonEmpty = {} THEN 0 ELSE 1
        /\ \A k \in Introductions(path) : \A j \in CallsFor(path) :
             j > k => ~calls[j].isNewFile

\* Reached: a new file introduced by the first group and changed again by
\* the second, whose call was made with isNewFile = false.
C6_Witness ==
  \E path \in ctx.newFiles :
    \E k, j \in CallsFor(path) :
      /\ k < j
      /\ k \in Introductions(path)
      /\ calls[j].diff # <<>>
      /\ ~calls[j].isNewFile

\* C7: the diff generator is called with isNewFile = true only when the file
\* is flagged new, has not been marked as introduced, before is empty and
\* after is not; in every other call isNewFile is false.
C7_IsNewFileOnlyOnIntroduction ==
  \A k \in 1..Len(calls) :
    calls[k].isNewFile <=>
      /\ calls[k].filePath \in ctx.newFiles
      /\ \A j \in Introductions(calls[k].filePath) : j >= k
      /\ calls[k].before = <<>>
      /\ calls[k].after # <<>>

\* Reached, against C7: a new file with well-formed hunks (additions only)
\* for which the generator was called with isNewFile = true although before
\* and after are both empty.
C7_EmptyIntroductionReached ==
  \E k \in 1..Len(calls) :
    /\ WellFormed(calls[k].filePath)
    /\ calls[k].isNewFile
    /\ calls[k].before = <<>>
    /\ calls[k].after = <<>>

(***************************************************************************)
(* Further properties of the partitioner (SpecX).                          *)
(***************************************************************************)
\* Every entry of the classification names a group of the plan.
EntriesInPlan ==
  \A key \in DiffChangeLines : ClassEntries(key[1], key[2]) \subseteq PlanIds

\* C11: with a plan that has a first group and entries that name groups of
\* the plan, extractChanges does not fail whatever lines are left without an
\* entry; a changed line without entry lies in a range of the first group of
\* the plan, a classified line in a range of the group its entry names.
C11_FallbackToFirstGroup ==
  (pc # "extract" /\ Len(commits) > 0 /\ EntriesInPlan) =>
    /\ pc # "threw"
    /\ \A key \in DiffChangeLines :
         \E slot \in Covering(commitChanges, key[1], key[2]) :
           IF ClassEntries(key[1], key[2]) = {}
           THEN slot[1] = 1 /\ commitChanges[1].commitId = commits[1].id
           ELSE commitChanges[slot[1]].commitId \in ClassEntries(key[1], key[2])

\* Reached: under the plan g2, g1 a line without entry came out in the first
\* group, g2, and a line classified g1 in the second.
C11_Witness ==
  /\ Extracted
  /\ Len(commits) = 2
  /\ commits[1].id = "g2"
  /\ \E k1, k2 \in DiffChangeLines :
       /\ ClassEntries(k1[1], k1[2]) = {}
       /\ ClassEntries(k2[1], k2[2]) = {"g1"}
       /\ \E slot \in Covering(commitChanges, k1[1], k1[2]) : slot[1] = 1
       /\ \E slot \in Covering(commitChanges, k2[1], k2[2]) : slot[1] = 2

\* Number of lines before index idx (0-based) of the hunk lines L that start
\* with one of the characters in firsts.
LinesBefore(L, idx, firsts) ==
  Cardinality({i \in 1..idx : Len(L[i]) > 0 /\ L[i][1] \in firsts})

\* C15: in a hunk whose header gives the starts, a removal range has
\* startOriginalLineNum = the header's original start + the number of context
\* and removal lines before the range's first index, and startNewLineNum =
\* -1; an addition range has startNewLineNum = the header's new start + the
\* number of context and addition lines before its first index, and
\* startOriginalLineNum = -1.
C15_StartLineNumbers ==
  Extracted =>
    \A slot \in RangeSlots(commitChanges) : \A d \in DiffHunks :
      LET R == RangeAt(commitChanges, slot)
          L == Split(d.hunk.content)
      IN  (d.hunk.id = R.hunkId /\ d.hunk.header.kind = "full") =>
            IF R.type = "-"
            THEN /\ R.startOriginalLineNum =
                      d.hunk.header.orig + LinesBefore(L, R.startLineIdx, {" ", "-"})
                 /\ R.startNewLineNum = -1
            ELSE /\ R.startNewLineNum =
                      d.hunk.header.new + LinesBefore(L, R.startLineIdx, {" ", "+"})
                 /\ R.startOriginalLineNum = -1

\* A step of the fileChange loop that called the diff generator and got an
\* empty fragment back.
EmptyFragmentStep ==
  /\ Len(calls') = Len(calls) + 1
  /\ calls'[Len(calls')].diff = <<>>

\* C13: a (group, file) step whose diff is empty appends nothing to the
\* group's patch parts and leaves the created-in-patch markers as they were,
\* yet sets the file's cumulative ranges to the earlier ones followed by the
\* group's ranges, and does not end the run; once buildPatches has returned,
\* every group that had such a step has its AssembledPatch.
C13_EmptyFragment ==
  /\ [][EmptyFragmentStep =>
          LET fileChange == commitChanges[ci].fileChanges[fi]
              filePath   == fileChange.filePath
          IN  /\ patchParts' = patchParts
              /\ ctx'.createdInPatch = ctx.createdInPatch
              /\ filePath \in DOMAIN cumulativeRangesByFile'
              /\ cumulativeRangesByFile'[filePath] =
                   GetOr(cumulativeRangesByFile, filePath, <<>>) \o fileChange.ranges
              /\ pc' = "commit"]_vars
  /\ [](pc = "done" =>
          \A k \in 1..Len(calls) :
            calls[k].diff = <<>> =>
              /\ calls[k].commit <= Len(results)
              /\ results[calls[k].commit].commitId =
                   commitChanges[calls[k].commit].commitId)

\* buildPatches has returned after a step with an empty fragment for a file
\* that was still to be introduced, the step having added ranges to the
\* file's cumulative selection, and a later group got a nonempty fragment.
C13_Witness ==
  /\ pc = "done"
  /\ \E k \in 1..Len(calls) :
       /\ calls[k].diff = <<>>
       /\ calls[k].isNewFile
       /\ Len(commitChanges[calls[k].commit].fileChanges) > 0
       /\ Len(cumulativeRangesByFile[calls[k].filePath]) > 0
       /\ \E j \in k+1..Len(calls) : calls[j].diff # <<>>

\* The calls of the diff generator made for group c, in the order made.
CallsOfGroup(c) == SelectSeq(calls, LAMBDA call : call.commit = c)

\* The position of a path in the input file list.
FilePosition(path) == FindFile(files, path)

\* C14: buildPatches returns one AssembledPatch per group, in group order,
\* with the group's id, message and description, and a patch that is the
\* concatenation of the group's nonempty fragments in the order of its file
\* changes (the empty concatenation included); extractChanges returns one
\* entry per plan group, in plan order, whose files come in input file order.
C14_OnePatchPerGroup ==
  /\ pc = "done" =>
       /\ Len(results) = Len(commitChanges)
       /\ \A c \in 1..Len(commitChanges) :
            LET made == CallsOfGroup(c)
            IN  /\ results[c].commitId = commitChanges[c].commitId
                /\ results[c].message = commitChanges[c].message
                /\ results[c].description = commitChanges[c].description
                /\ Len(made) = Len(commitChanges[c].fileChanges)
                /\ \A i \in 1..Len(made) :
                     made[i].filePath = commitChanges[c].fileChanges[i].filePath
                /\ results[c].patch =
                     Flatten([i \in 1..Len(made) |-> made[i].diff])
  /\ Extracted =>
       /\ Len(commitChanges) = Len(commits)
       /\ \A c \in 1..Len(commits) :
            /\ commitChanges[c].commitId = commits[c].id
            /\ commitChanges[c].message = commits[c].message
            /\ commitChanges[c].description = commits[c].description
            /\ \A i, j \in 1..Len(commitChanges[c].fileChanges) :
                 i < j =>
                   FilePosition(commitChanges[c].fileChanges[i].filePath) <
                     FilePosition(commitChanges[c].fileChanges[j].filePath)

\* buildPatches has returned two patches: one group's patch is the
\* concatenation of two nonempty fragments, for two files, and the other
\* group's patch is empty.
C14_Witness ==
  /\ pc = "done"
  /\ Len(results) = 2
  /\ \E c, e \in 1..2 :
       /\ Len(CallsOfGroup(c)) = 2
       /\ \A i \in 1..2 : CallsOfGroup(c)[i].diff # <<>>
       /\ results[c].patch # <<>>
       /\ results[e].patch = <<>>
       /\ results[e].commitId = commits[e].id

\* C16: replay with an empty selection returns the original content,
\* whatever the hunks declare; so a diff call made while the file's
\* cumulative selection is empty has the original content as its after
\* state, and a diff call made when no earlier ranges exist has as its
\* before state what the replay with the empty selection returns.
C16_EmptySelectionIdentity ==
  /\ \A f \in 1..Len(files) :
       buildFileContent(PreChange(files[f].filePath), files[f].hunks, <<>>) =
         PreChange(files[f].filePath)
  /\ \A k \in 1..Len(calls) :
       LET path == calls[k].filePath
           orig == GetOr(ctx.fileStates, path, <<>>)
       IN  /\ RangesUpTo(calls[k].commit, path) = <<>> =>
                calls[k].after = orig
           /\ RangesUpTo(calls[k].commit - 1, path) = <<>> =>
                calls[k].before =
                  buildFileContent(orig, FileOf(path).hunks, <<>>)

\* buildPatches has returned; the second hunk is declared to start at a line
\* that the first hunk has already consumed, the file has content, a call
\* replayed the empty selection and the next call selected ranges.
C16_Witness ==
  /\ pc = "done"
  /\ Len(calls) = 2
  /\ calls[1].after = calls[1].before
  /\ calls[1].before # <<>>
  /\ calls[2].after # calls[2].before
  /\ Len(files[1].hunks) = 2
  /\ files[1].hunks[1].header.kind = "full"
  /\ files[1].hunks[2].header.orig = 1
  /\ \E i \in 1..Len(files[1].hunks[1].content) :
       files[1].hunks[1].content[i] = " "

\* The file changes of cc that name a file of the diff.
WithoutAbsent(cc) ==
  [c \in 1..Len(cc) |->
     [cc[c] EXCEPT !.fileChanges =
        SelectSeq(@, LAMBDA fileChange : fileChange.filePath \in DiffPaths)]]

\* A file change of commitChanges names a file that the diff does not have.
HasAbsentEntry ==
  \E c \in 1..Len(commitChanges) : \E f \in 1..Len(commitChanges[c].fileChanges) :
    commitChanges[c].fileChanges[f].filePath \notin DiffPaths

\* C12: with a file change that names a file absent from the diff,
\* buildPatches runs to its end; no diff call is ever made for an absent
\* path, no absent path gets cumulative ranges or a created-in-patch mark,
\* and the results, the diff calls, the cumulative ranges and the context
\* at the end are those of buildPatches on the same groups without that
\* file change.
C12_AbsentFileSkipped ==
  HasAbsentEntry =>
    /\ pc # "threw"
    /\ \A k \in 1..Len(calls) : calls[k].filePath \in DiffPaths
    /\ DOMAIN cumulativeRangesByFile \subseteq DiffPaths
    /\ pc \in {"commit", "done"} => ctx.createdInPatch \subseteq DiffPaths
    /\ pc = "done" =>
         LET expected == buildPatches(files, WithoutAbsent(commitChanges), repo)
         IN  /\ results = expected.results
             /\ calls = expected.calls
             /\ cumulativeRangesByFile = expected.cumulativeRangesByFile
             /\ ctx = expected.ctx

\* buildPatches has returned; the first group held the absent file's change
\* before a change of a file of the diff that gave a fragment, and the
\* second group gave a fragment as well.
C12_Witness ==
  /\ pc = "done"
  /\ Len(commitChanges) = 2
  /\ Len(commitChanges[1].fileChanges) >= 2
  /\ commitChanges[1].fileChanges[1].filePath = AbsentPath
  /\ results[1].patch # <<>>
  /\ results[2].patch # <<>>

=============================================================================
